---- MODULE Spec2Model ----
(***************************************************************************)
(* Model of the constraint-satisfaction framework of src/csp.py with the   *)
(* N-Queens constraint of src/queens.py and the search variant             *)
(* backtracking_search_2 of src/testCsp.py.                                *)
(*                                                                         *)
(* A behaviour is the life of one CSP object: the constructor call, the    *)
(* add_constraint calls, and the top-level search calls of its caller.     *)
(* The recursion of the search is an explicit stack of frames, advanced    *)
(* one frame event at a time.                                              *)
(***************************************************************************)
EXTENDS Integers, Sequences, FiniteSets, TLC

\* ------------------------------------------------------------- bounds
\* Variables (columns) are the integers 1..MaxVar; a declared variable list
\* and a constraint's variable list have at most MaxVar elements.
MaxVar == 2
\* Domain values (rows) are the integers 1..MaxVal; a domain has at most
\* MaxVal elements.
MaxVal == 2
\* add_constraint calls made on the problem.
MaxAdds == 1
\* Top-level search calls made on the problem.
MaxCalls == 2

VARIABLES
    pc,           \* "new": before CSP(...); "failed": CSP(...) raised;
                  \* "ready": constructed, no call running; "searching"
    variables,    \* self.variables: the declared list
    domains,      \* self.domains: dict variable -> list of values
    constraints,  \* self.constraints: dict variable -> list of constraints
    nAdds,        \* add_constraint calls made so far
    addRaised,    \* the last add_constraint call raised LookupError
    defaultArg,   \* the dict object that is the default of `assignment`
    stack,        \* the frames of the running search, outermost first
    ret,          \* the value a callee has just returned to the top frame
    calls,        \* the finished top-level calls: <<[fn, start, outcome]>>
    held          \* the dict the caller holds from the last call

vars == <<pc, variables, domains, constraints, nAdds, addRaised, defaultArg,
          stack, ret, calls, held>>

\* ------------------------------------------------------------ helpers
VarIds == 1..MaxVar
Values == 1..MaxVal

Range(s) == {s[i] : i \in 1..Len(s)}

Abs(x) == IF x < 0 THEN -x ELSE x

\* All sequences over S of length at most n.
SeqsUpTo(S, n) == UNION {[1..k -> S] : k \in 0..n}

\* len(d) of a dict d
DictLen(d) == Cardinality(DOMAIN d)

\* The empty dict {}
EmptyDict == <<>>

\* DictSet, were the store forgotten.
DictSet_Dropped(d, k, v) == d

\* d after d[k] = v
DictSet(d, k, v) == [x \in (DOMAIN d) \cup {k} |-> IF x = k THEN v ELSE d[x]]

\* Values a call hands back: a dict, None, or a raised exception.
Returned(a)  == [kind |-> "assignment", value |-> a]
NoneValue    == [kind |-> "none", value |-> EmptyDict]
IndexError   == [kind |-> "IndexError", value |-> EmptyDict]
NoRet        == [kind |-> "nothing", value |-> EmptyDict]


\* ------------------------------------------------- QueensConstraint
\* A constraint is represented by its variable list (self.variables, which
\* QueensConstraint also keeps as self.columns).

\* QueensConstraint.satisfied: every pair q1c < q2c <= len(self.columns) of
\* assigned columns is on different rows and different diagonals.
Satisfied(columns, assignment) ==
    \A q1c \in DOMAIN assignment :
        \A q2c \in (q1c + 1)..Len(columns) :
            q2c \in DOMAIN assignment =>
                /\ assignment[q1c] # assignment[q2c]
                /\ Abs(q1c - q2c) # Abs(assignment[q1c] - assignment[q2c])

\* ---------------------------------------------------------------- CSP
\* FirstMissing, were the constructor to reject an empty domain too
\* (`if not self.domains.get(variable)`).
FirstMissing_EmptyCounts(vs, ds) ==
    LET bad(i) == vs[i] \notin DOMAIN ds \/ ds[vs[i]] = <<>>
    IN IF \E i \in 1..Len(vs) : bad(i)
       THEN CHOOSE i \in 1..Len(vs) : bad(i) /\ \A j \in 1..(i - 1) : ~bad(j)
       ELSE 0

\* CSP.__init__: the index of the first declared variable without a domain
\* entry, or 0 when every declared variable has one.
FirstMissing(vs, ds) ==
    IF \E i \in 1..Len(vs) : vs[i] \notin DOMAIN ds
    THEN CHOOSE i \in 1..Len(vs) :
            /\ vs[i] \notin DOMAIN ds
            /\ \A j \in 1..(i - 1) : vs[j] \in DOMAIN ds
    ELSE 0

\* CSP.__init__: the loop gives every variable it reaches an empty constraint
\* list and raises LookupError at the first one without a domain entry.
CSPInit ==
    /\ pc = "new"
    /\ LET m == FirstMissing(variables, domains)
           reached == IF m = 0 THEN Range(variables)
                               ELSE {variables[j] : j \in 1..m}
       IN /\ constraints' = [v \in reached |-> <<>>]
          /\ pc' = IF m = 0 THEN "ready" ELSE "failed"
    /\ UNCHANGED <<variables, domains, nAdds, addRaised, defaultArg, stack,
                   ret, calls, held>>

\* CSP.add_constraint: the number of leading elements of the constraint's
\* variable list that are declared variables (the loop appends for each of
\* them and raises at the next element, if there is one).
DeclaredPrefix(columns) ==
    IF \E i \in 1..Len(columns) : columns[i] \notin Range(variables)
    THEN (CHOOSE i \in 1..Len(columns) :
            /\ columns[i] \notin Range(variables)
            /\ \A j \in 1..(i - 1) : columns[j] \in Range(variables)) - 1
    ELSE Len(columns)

\* The registry after the loop has appended `columns` for its first n
\* elements, one append per element.
RECURSIVE Registered(_, _, _)
Registered(reg, columns, n) ==
    IF n = 0 THEN reg
    ELSE LET r == Registered(reg, columns, n - 1)
         IN [r EXCEPT ![columns[n]] = Append(@, columns)]

\* The caller attaches constraints before it searches (src/queens.py main).
AddConstraint(columns) ==
    /\ pc = "ready"
    /\ calls = <<>>
    /\ nAdds < MaxAdds
    /\ LET n == DeclaredPrefix(columns)
       IN /\ constraints' = Registered(constraints, columns, n)
          /\ addRaised' = (n < Len(columns))
    /\ nAdds' = nAdds + 1
    /\ UNCHANGED <<pc, variables, domains, defaultArg, stack, ret, calls,
                   held>>

\* CSP.consistent: every constraint registered for `variable` is satisfied.
Consistent(variable, assignment) ==
    \A i \in 1..Len(constraints[variable]) :
        Satisfied(constraints[variable][i], assignment)


\* ------------------------------------------------------------- search
\* A frame of backtracking_search or backtracking_search_2:
\*   assignment  the parameter;  fn  which of the two functions runs;
\*   st  "entry" (at the first statement), "loop" (at the head of the for
\*       loop, about to take value number idx of the domain of first),
\*       "wait" (in the recursive call made for value number idx).
Frame(a, fn) == [assignment |-> a, fn |-> fn, st |-> "entry", first |-> 0,
                 idx |-> 0]

Top == stack[Len(stack)]

Pop == SubSeq(stack, 1, Len(stack) - 1)

\* IsComplete, were the base case "no variable is left that has a value to
\* try".
IsComplete_IgnoresEmpty(assignment) ==
    \A i \in 1..Len(variables) :
        variables[i] \in DOMAIN assignment \/ domains[variables[i]] = <<>>

\* The base case: len(assignment) == len(self.variables)
IsComplete(assignment) == DictLen(assignment) = Len(variables)

\* unassigned: [v for v in self.variables if v not in assignment]
Unassigned(assignment) ==
    LET free(v) == v \notin DOMAIN assignment
    IN SelectSeq(variables, free)

\* The position in `unassigned` of the variable a function branches on:
\* unassigned[0] in backtracking_search, unassigned[1] in
\* backtracking_search_2 (positions counted from 1 here).
Pick(fn) == IF fn = "backtracking_search" THEN 1 ELSE 2

\* A top-level call csp.backtracking_search() or csp.backtracking_search_2()
\* with no argument: the parameter is bound to the default dict object.
Call(fn) ==
    /\ pc = "ready"
    /\ Len(calls) < MaxCalls
    /\ pc' = "searching"
    /\ stack' = <<Frame(defaultArg, fn)>>
    /\ ret' = NoRet
    /\ UNCHANGED <<variables, domains, constraints, nAdds, addRaised,
                   defaultArg, calls, held>>

\* The record of the running top-level call once it has ended with `value`:
\* the function called, the assignment it started from, and its outcome.
Finished(value) == [fn |-> stack[1].fn, start |-> stack[1].assignment,
                    outcome |-> value]

\* The top frame hands `value` back: to its caller's frame, or, when it is
\* the outermost frame, to the caller of the search. `own` tells whether the
\* value is the frame's own parameter object (for the outermost frame, the
\* default dict itself) or a copy made by a deeper frame.
Return(value, own) ==
    IF Len(stack) = 1
    THEN /\ stack' = <<>>
         /\ ret' = NoRet
         /\ pc' = "ready"
         /\ calls' = Append(calls, Finished(value))
         /\ held' = IF value.kind # "assignment" THEN "none"
                    ELSE IF own THEN "default" ELSE "copy"
    ELSE /\ stack' = Pop
         /\ ret' = value
         /\ UNCHANGED <<pc, calls, held>>


\* First statements of a frame: return the parameter when it has as many
\* keys as there are declared variables; otherwise pick the variable to
\* branch on. Indexing `unassigned` past its end raises IndexError, which no
\* frame catches: the whole top-level call ends with it.
Enter ==
    /\ pc = "searching"
    /\ Top.st = "entry"
    /\ LET a == Top.assignment
           unassigned == Unassigned(a)
           k == Pick(Top.fn)
       IN IF IsComplete(a)
          THEN Return(Returned(a), TRUE)
          ELSE IF k > Len(unassigned)
          THEN /\ stack' = <<>>
               /\ ret' = NoRet
               /\ pc' = "ready"
               /\ calls' = Append(calls, Finished(IndexError))
               /\ held' = "none"
          ELSE /\ stack' = [stack EXCEPT ![Len(stack)] =
                              [@ EXCEPT !.st = "loop",
                                        !.first = unassigned[k],
                                        !.idx = 1]]
               /\ UNCHANGED <<pc, ret, calls, held>>
    /\ UNCHANGED <<variables, domains, constraints, nAdds, addRaised,
                   defaultArg>>

\* One pass of `for value in self.domains[first]`: copy the assignment, set
\* first to the value, and recurse into backtracking_search when the copy
\* is consistent; after the last value, return None.
Iterate ==
    /\ pc = "searching"
    /\ Top.st = "loop"
    /\ LET f == Top
           dom == domains[f.first]
       IN IF f.idx > Len(dom)
          THEN Return(NoneValue, FALSE)
          ELSE LET local_assignment ==
                       DictSet(f.assignment, f.first, dom[f.idx])
               IN /\ IF Consistent(f.first, local_assignment)
                     THEN stack' = Append(
                              [stack EXCEPT ![Len(stack)].st = "wait"],
                              Frame(local_assignment, "backtracking_search"))
                     ELSE stack' = [stack EXCEPT ![Len(stack)].idx = @ + 1]
                  /\ UNCHANGED <<pc, ret, calls, held>>
    /\ UNCHANGED <<variables, domains, constraints, nAdds, addRaised,
                   defaultArg>>

\* The recursive call has returned `result`: return it when it is not
\* None, otherwise go on with the next value.
Resume ==
    /\ pc = "searching"
    /\ Top.st = "wait"
    /\ IF ret.kind = "assignment"
       THEN Return(ret, FALSE)
       ELSE /\ stack' = [stack EXCEPT ![Len(stack)] =
                           [@ EXCEPT !.st = "loop", !.idx = @ + 1]]
            /\ ret' = NoRet
            /\ UNCHANGED <<pc, calls, held>>
    /\ UNCHANGED <<variables, domains, constraints, nAdds, addRaised,
                   defaultArg>>

\* The caller stores a key in the dict the last call returned. When that
\* dict is the default object of the `assignment` parameter, the default
\* the next call starts from has the key too.
CallerMutate(k, v) ==
    /\ pc = "ready"
    /\ held \in {"default", "copy"}
    /\ defaultArg' = IF held = "default" THEN DictSet(defaultArg, k, v)
                                         ELSE defaultArg
    /\ held' = "none"
    /\ UNCHANGED <<pc, variables, domains, constraints, nAdds, addRaised,
                   stack, ret, calls>>

\* ------------------------------------------------------ specification
\* Declared variable lists: any list of variables, repeats included.
VarLists == SeqsUpTo(VarIds, MaxVar)

\* Domains: any list of values, repeats included.
DomLists == SeqsUpTo(Values, MaxVal)

\* Domain dicts: some variables have an entry, the others have none.
DomainDicts == UNION {[S -> DomLists] : S \in SUBSET VarIds}

\* Variable lists of the constraints handed to add_constraint.
ColumnLists == SeqsUpTo(VarIds, MaxVar) \ {<<>>}

Init ==
    /\ pc = "new"
    /\ variables \in VarLists
    /\ domains \in DomainDicts
    /\ constraints = <<>>
    /\ nAdds = 0
    /\ addRaised = FALSE
    /\ defaultArg = EmptyDict
    /\ stack = <<>>
    /\ ret = NoRet
    /\ calls = <<>>
    /\ held = "none"

Next ==
    \/ CSPInit
    \/ \E columns \in ColumnLists : AddConstraint(columns)
    \/ Call("backtracking_search")
    \/ Call("backtracking_search_2")
    \/ Enter
    \/ Iterate
    \/ Resume
    \/ \E k \in VarIds, v \in Values : CallerMutate(k, v)

Spec == Init /\ [][Next]_vars


\* A second specification, for the claims about one search running to its
\* end: the problems are built the way src/queens.py builds them, from the
\* column lists [1..n] and the row lists [1..m], a variable's domain being
\* any row list, empty or missing; the caller makes one call of
\* backtracking_search, whose steps are taken as long as one is enabled (the
\* search is one synchronous call).
QueensColumns == {[i \in 1..n |-> i] : n \in 1..MaxVar}

QueensRows == {[i \in 1..m |-> i] : m \in 0..MaxVal}

SearchInit ==
    /\ pc = "new"
    /\ variables \in VarLists
    /\ domains \in UNION {[S -> QueensRows] : S \in SUBSET VarIds}
    /\ constraints = <<>>
    /\ nAdds = 0
    /\ addRaised = FALSE
    /\ defaultArg = EmptyDict
    /\ stack = <<>>
    /\ ret = NoRet
    /\ calls = <<>>
    /\ held = "none"

SearchStep == Enter \/ Iterate \/ Resume

SearchNext ==
    \/ CSPInit
    \/ \E columns \in QueensColumns : AddConstraint(columns)
    \/ calls = <<>> /\ Call("backtracking_search")
    \/ SearchStep

SearchSpec == SearchInit /\ [][SearchNext]_vars /\ WF_vars(SearchStep)

\* ------------------------------------------------------------- claims
\* The constraints present in the registry, under any variable.
RegisteredConstraints ==
    UNION {Range(constraints[v]) : v \in DOMAIN constraints}

\* The complete assignments: one value of its domain for each declared
\* variable.
CompleteAssignments ==
    {a \in [Range(variables) -> Values] :
        \A v \in Range(variables) : a[v] \in Range(domains[v])}

\* The complete assignments that satisfy every registered constraint.
Solutions ==
    {a \in CompleteAssignments :
        \A c \in RegisteredConstraints : Satisfied(c, a)}

\* The finished calls of backtracking_search that started from the empty
\* assignment.
SearchesFromEmpty ==
    {i \in 1..Len(calls) : /\ calls[i].fn = "backtracking_search"
                           /\ calls[i].start = EmptyDict}

\* C1: an assignment returned by backtracking_search started from the empty
\* assignment has exactly the declared variables as keys, one key per
\* element of the declared list, and satisfies every registered constraint.
C1_ReturnedIsSolution ==
    \A i \in SearchesFromEmpty :
        calls[i].outcome.kind = "assignment" =>
            LET a == calls[i].outcome.value
            IN /\ DOMAIN a = Range(variables)
               /\ DictLen(a) = Len(variables)
               /\ \A c \in RegisteredConstraints : Satisfied(c, a)

\* C2: backtracking_search started from the empty assignment returns an
\* assignment exactly when some complete assignment satisfies every
\* registered constraint.
C2_ReturnsIffSolvable ==
    \A i \in SearchesFromEmpty :
        (calls[i].outcome.kind = "assignment") <=> (Solutions # {})

\* The position of the first occurrence of value x in the domain of v.
Pos(v, x) == CHOOSE i \in 1..Len(domains[v]) :
                /\ domains[v][i] = x
                /\ \A j \in 1..(i - 1) : domains[v][j] # x

\* a comes no later than b in the order that compares the values of the
\* variables in declared order, each by its position in the domain.
LexLeq(a, b) ==
    \/ a = b
    \/ \E i \in 1..Len(variables) :
          /\ \A j \in 1..(i - 1) : a[variables[j]] = b[variables[j]]
          /\ Pos(variables[i], a[variables[i]])
                < Pos(variables[i], b[variables[i]])

\* C3: the assignment backtracking_search returns is the least solution in
\* (variable order, domain order).
C3_ReturnsLeastSolution ==
    \A i \in SearchesFromEmpty :
        calls[i].outcome.kind = "assignment" =>
            LET a == calls[i].outcome.value
            IN /\ a \in Solutions
               /\ \A b \in Solutions : LexLeq(a, b)

\* C4: an add_constraint call that raises leaves the registry as it was.
C4_RejectedAddLeavesRegistry ==
    [][(nAdds' = nAdds + 1 /\ addRaised') => constraints' = constraints]_vars

\* C6: two calls of backtracking_search with no argument on the same
\* problem have the same outcome, whatever the caller did in between.
C6_SameResultTwice ==
    \A i, j \in 1..Len(calls) :
        (calls[i].fn = "backtracking_search"
            /\ calls[j].fn = "backtracking_search")
        => calls[i].outcome = calls[j].outcome

\* C7: a search (either function) started from the empty assignment ends by
\* returning a complete assignment or None, never by raising.
C7_SearchNeverRaises ==
    \A i \in 1..Len(calls) :
        calls[i].start = EmptyDict =>
            \/ calls[i].outcome = NoneValue
            \/ /\ calls[i].outcome.kind = "assignment"
               /\ IsComplete(calls[i].outcome.value)

\* C9: every assignment the search has recursed on satisfies every
\* registered constraint.
C9_RecursedAssignmentsConsistent ==
    \A i \in 2..Len(stack) :
        \A c \in RegisteredConstraints : Satisfied(c, stack[i].assignment)


\* The declared variables without a domain entry.
MissingDomain == {v \in Range(variables) : v \notin DOMAIN domains}

\* C5: the constructor fails exactly when a declared variable has no domain
\* entry (an empty domain is an entry), and a failed construction is never
\* followed by a search.
C5_ConstructionFailsIffMissing ==
    /\ pc # "new" => (pc = "failed" <=> MissingDomain # {})
    /\ pc = "failed" => stack = <<>> /\ calls = <<>>

\* A construction that failed at a variable after the first, an earlier
\* variable having an empty domain.
C5_Witness ==
    /\ pc = "failed"
    /\ \E i \in 2..Len(variables) :
          /\ variables[i] \notin DOMAIN domains
          /\ variables[1] \in DOMAIN domains
          /\ domains[variables[1]] = <<>>

\* C8: when a declared variable has an empty domain, backtracking_search
\* started from the empty assignment returns None.
C8_EmptyDomainGivesNone ==
    \A i \in SearchesFromEmpty :
        (\E v \in Range(variables) : domains[v] = <<>>)
            => calls[i].outcome = NoneValue

\* A search that ended where the last declared variable has the empty
\* domain, the first has values, and a constraint is registered.
C8_Witness ==
    /\ SearchesFromEmpty # {}
    /\ Len(variables) >= 2
    /\ domains[variables[Len(variables)]] = <<>>
    /\ Len(domains[variables[1]]) >= 2
    /\ RegisteredConstraints # {}
    /\ calls[1].outcome = NoneValue

\* Each frame below the outermost holds exactly one more variable than the
\* frame that called it, and there are at most as many of them as declared
\* variables.
DepthBounded ==
    /\ Len(stack) - 1 <= Len(variables)
    /\ \A i \in 2..Len(stack) :
          DictLen(stack[i].assignment) = DictLen(stack[i - 1].assignment) + 1

\* C10: a search terminates, and while it runs the recursion depth stays
\* within the number of declared variables, each frame's assignment having
\* one more variable than its caller's.
C10_TerminatesWithBoundedDepth ==
    /\ [](pc = "searching" => DepthBounded)
    /\ (pc = "searching") ~> (pc = "ready" /\ calls # <<>>)

\* A search at its greatest depth: as many nested frames as variables.
C10_Witness ==
    /\ pc = "searching"
    /\ Len(variables) >= 2
    /\ Len(stack) - 1 = Len(variables)
    /\ stack[1].assignment = EmptyDict

====
